---- MODULE Spec2Model ----
(***************************************************************************)
(* Model of scripts/fetch-seed-data.py: the pipeline of main               *)
(* (fetch_seed_data, create_sample_data, save_sample_data,                  *)
(* validate_sample_data) as a state machine, one action per stage.         *)
(*                                                                         *)
(* Python values are modelled as follows.                                  *)
(*   str        a sequence of one-character strings                        *)
(*   dict       a function whose DOMAIN is the set of keys present         *)
(*   JSON value [kind, items, size]: kind "array" carries its elements in  *)
(*              items; "object" and "string" carry only their len() in     *)
(*              size; "number" and "null" have no len()                    *)
(*   a raised exception is the field `raised` of an operator's result      *)
(***************************************************************************)
EXTENDS Integers, Sequences, FiniteSets, TLC

\* ------------------------------------------------------------- bounds
\* Longest fetched array (and largest len() of a fetched object/string).
MaxN == 4
\* Largest positive sample size given on the command line.
MaxK == 3
\* Most negative sample size given on the command line is -MaxNegK.
MaxNegK == 1

\* ---------------------------------------------------- program constants
\* sample_size = 10 when argv[2] is absent or does not parse as an int.
DefaultSampleSize == 10

\* "io.modelcontextprotocol.anonymous/"
ANON_PREFIX ==
    << "i","o",".","m","o","d","e","l","c","o","n","t","e","x","t",
       "p","r","o","t","o","c","o","l",".","a","n","o","n","y","m","o","u","s","/" >>

\* "[DEMO] "
DEMO_PREFIX == << "[","D","E","M","O","]"," " >>

\* "No description"
NO_DESCRIPTION == << "N","o"," ","d","e","s","c","r","i","p","t","i","o","n" >>

\* "1.0.0"
DEFAULT_VERSION == << "1",".","0",".","0" >>

\* required_fields, in the order the validator checks them
required_fields == << "name", "description", "version" >>

\* ------------------------------------------------------------- inputs
\* Registry records as they can arrive from the network: name with no, one,
\* two or a leading '/', or missing; description present, empty or missing;
\* version present, empty or missing.
SeedRecords ==
    { [name |-> <<"a","/","b">>, description |-> <<"d">>, version |-> <<"2">>],
      [name |-> <<"a">>],
      [name |-> <<"a","/","b","/","c">>, description |-> <<"d">>, version |-> <<>>],
      [description |-> <<"d">>, version |-> <<"2">>],
      [name |-> <<"/","b">>, description |-> <<>>] }

RECURSIVE SeqsUpTo(_, _)
SeqsUpTo(S, n) ==
    IF n = 0 THEN { <<>> }
    ELSE LET shorter == SeqsUpTo(S, n - 1)
         IN  shorter \cup { Append(s, x) : s \in { t \in shorter : Len(t) = n - 1 }, x \in S }

JsonArray(items) == [kind |-> "array", items |-> items, size |-> Len(items)]
JsonOther(kind, size) == [kind |-> kind, items |-> <<>>, size |-> size]
NoValue == JsonOther("none", 0)

\* What response.read() can hold: text that is not JSON, or a JSON value.
Bodies ==
    { JsonOther("malformed", 0), JsonOther("number", 0), JsonOther("null", 0) }
    \cup { JsonOther("object", m) : m \in 0..MaxN }
    \cup { JsonOther("string", m) : m \in 0..MaxN }
    \cup { JsonArray(s) : s \in SeqsUpTo(SeedRecords, MaxN) }

\* What urlopen can do: fail (no connection, or an HTTP error status, for which
\* urlopen itself raises), or answer with a 2xx status and a body.
Responses ==
    { [net |-> "unreachable", status |-> 0, body |-> NoValue],
      [net |-> "httperror", status |-> 404, body |-> NoValue],
      [net |-> "ok", status |-> 204, body |-> JsonArray(<<>>)] }
    \cup { [net |-> "ok", status |-> 200, body |-> b] : b \in Bodies }

SampleSizes == ((0 - MaxNegK)..MaxK) \cup { DefaultSampleSize }

\* A file is absent, left over from an earlier run ("old"), cut short by a
\* failed write ("partial"), or completely written ("written", with the JSON
\* document json.dump produced).
NoDoc == [kind |-> "none", members |-> <<>>, size |-> 0]
NoFile == [state |-> "absent", doc |-> NoDoc]

\* --------------------------------------------------- Python primitives
\* len(x); None for a value that has no len() is not needed: the callers test
\* HasLen first.
HasLen(v) == v.kind \in { "array", "object", "string" }
PyLen(v) == IF v.kind = "array" THEN Len(v.items) ELSE v.size

\* a // b as Python computes it (floor), b # 0.
PyFloorDiv(a, b) ==
    IF b > 0 THEN a \div b
    ELSE 0 - ((a + (0 - b) - 1) \div (0 - b))

\* Mutant of PyRange: range(abs(n)).
PyRangeAbs(n) == IF n > 0 THEN [i \in 1..n |-> i - 1] ELSE [i \in 1..(0 - n) |-> i - 1]

\* list(range(n)): 0, 1, ..., n-1; empty for n <= 0.
PyRange(n) == IF n > 0 THEN [i \in 1..n |-> i - 1] ELSE <<>>

\* '/' in s
HasSlash(s) == \E i \in 1..Len(s) : s[i] = "/"

\* Mutant of AfterFirstSlash: s.split('/')[-1], what follows the last '/'.
AfterLastSlash(s) ==
    LET last == CHOOSE i \in 1..Len(s) : s[i] = "/" /\ \A j \in (i + 1)..Len(s) : s[j] # "/"
    IN  SubSeq(s, last + 1, Len(s))

\* s.split('/', 1)[-1] for s that holds a '/': what follows the first '/'.
AfterFirstSlash(s) ==
    LET first == CHOOSE i \in 1..Len(s) : s[i] = "/" /\ \A j \in 1..(i - 1) : s[j] # "/"
    IN  SubSeq(s, first + 1, Len(s))

\* d[k] = v
SetItem(d, k, v) == [x \in (DOMAIN d) \cup { k } |-> IF x = k THEN v ELSE d[x]]

\* d.get(k, default)
GetItem(d, k, default) == IF k \in DOMAIN d THEN d[k] ELSE default

\* bool(s) of a str
Truthy(s) == Len(s) > 0

\* ------------------------------------------------- fetch_seed_data
\* Mutant of fetch_seed_data: the except clause returns an empty list instead
\* of raising again.
fetch_seed_data_swallow(response) ==
    IF response.net = "ok" /\ response.status = 200 /\ HasLen(response.body)
    THEN [raised |-> "none", data |-> response.body]
    ELSE [raised |-> "none", data |-> JsonArray(<<>>)]

\* The value returned, or the exception re-raised by the except clause.
fetch_seed_data(response) ==
    IF response.net = "unreachable" THEN [raised |-> "URLError", data |-> NoValue]
    ELSE IF response.net = "httperror" THEN [raised |-> "HTTPError", data |-> NoValue]
    ELSE IF response.status # 200 THEN [raised |-> "Exception", data |-> NoValue]
    ELSE IF response.body.kind = "malformed"
         THEN [raised |-> "JSONDecodeError", data |-> NoValue]
    ELSE IF ~HasLen(response.body) THEN [raised |-> "TypeError", data |-> NoValue]
    ELSE [raised |-> "none", data |-> response.body]

\* ------------------------------------------------ create_sample_data
\* Mutant of NewName: the namespace is replaced only where there is one.
NewNameOnlyNamespaced(original_name) ==
    IF HasSlash(original_name)
    THEN ANON_PREFIX \o AfterFirstSlash(original_name)
    ELSE original_name

\* The name given to a server whose name was original_name.
NewName(original_name) ==
    LET namespace_part == IF HasSlash(original_name)
                          THEN AfterFirstSlash(original_name)
                          ELSE original_name
    IN  ANON_PREFIX \o namespace_part

\* The body of the loop `for server in sample`, for a server that has a name.
RewriteServer(server) ==
    LET original_name == server["name"]
        s1 == SetItem(server, "name", NewName(original_name))
        s2 == SetItem(s1, "description",
                      DEMO_PREFIX \o GetItem(s1, "description", NO_DESCRIPTION))
    IN  IF "version" \notin DOMAIN s2 \/ ~Truthy(s2["version"])
        THEN SetItem(s2, "version", DEFAULT_VERSION)
        ELSE s2

\* The loop over sample. The elements of sample are the very objects of
\* full_data, so the loop rewrites full_data's records at sample_indices, in
\* place; it stops at the first server without a name (KeyError).
RECURSIVE RewriteLoop(_, _, _)
RewriteLoop(data, sample_indices, j) ==
    IF j > Len(sample_indices) THEN [raised |-> "none", data |-> data]
    ELSE LET p == sample_indices[j] + 1
         IN  IF "name" \notin DOMAIN data[p]
             THEN [raised |-> "KeyError", data |-> data]
             ELSE RewriteLoop([data EXCEPT ![p] = RewriteServer(data[p])],
                              sample_indices, j + 1)

\* Mutant of SampleStep: the quotient rounded up.
SampleStepCeil(total_servers, sample_size) ==
    PyFloorDiv(total_servers + sample_size - 1, sample_size)

\* step = total_servers // sample_size
SampleStep(total_servers, sample_size) == PyFloorDiv(total_servers, sample_size)

\* sample_indices = [i * step for i in range(sample_size)]
SampleIndices(step, sample_size) ==
    LET r == PyRange(sample_size) IN [i \in DOMAIN r |-> r[i] * step]

\* Mutant of ReturnsVerbatim: total_servers < sample_size.
ReturnsVerbatimStrict(total_servers, sample_size) == total_servers < sample_size

\* if total_servers <= sample_size: return full_data
ReturnsVerbatim(total_servers, sample_size) == total_servers <= sample_size

\* create_sample_data(full_data, sample_size): the exception raised or the
\* sample returned, with sample_indices and full_data as the call leaves it.
create_sample_data(full_data, sample_size) ==
    LET total_servers == PyLen(full_data)
        Raise(e, fd) == [raised |-> e, sample |-> NoValue, indices |-> <<>>, full |-> fd]
    IN  IF ReturnsVerbatim(total_servers, sample_size)
        THEN [raised |-> "none", sample |-> full_data, indices |-> <<>>, full |-> full_data]
        ELSE IF sample_size = 0 THEN Raise("ZeroDivisionError", full_data)
        ELSE LET step == SampleStep(total_servers, sample_size)
                 sample_indices == SampleIndices(step, sample_size)
             IN  IF sample_indices = <<>>
                 THEN [raised |-> "none", sample |-> JsonArray(<<>>),
                       indices |-> sample_indices, full |-> full_data]
                 ELSE IF full_data.kind = "object" THEN Raise("KeyError", full_data)
                 ELSE IF \E j \in DOMAIN sample_indices : sample_indices[j] >= total_servers
                      THEN Raise("IndexError", full_data)
                 ELSE IF full_data.kind = "string" THEN Raise("TypeError", full_data)
                 ELSE LET loop == RewriteLoop(full_data.items, sample_indices, 1)
                      IN  IF loop.raised # "none"
                          THEN Raise(loop.raised, JsonArray(loop.data))
                          ELSE [raised |-> "none",
                                sample |-> JsonArray([j \in DOMAIN sample_indices |->
                                                        loop.data[sample_indices[j] + 1]]),
                                indices |-> sample_indices,
                                full |-> JsonArray(loop.data)]

\* -------------------------------------------------- json.dump / json.load
\* Mutant of DumpRecord: members whose value is the empty string are left out.
DumpRecordSkipEmpty(server) ==
    LET keys == SelectSeq(required_fields,
                          LAMBDA k : k \in DOMAIN server /\ server[k] # <<>>)
    IN  [i \in DOMAIN keys |-> << keys[i], server[keys[i]] >>]

\* A dict is written as its members, "key": value pairs, one after the other.
DumpRecord(server) ==
    LET keys == SelectSeq(required_fields, LAMBDA k : k \in DOMAIN server)
    IN  [i \in DOMAIN keys |-> << keys[i], server[keys[i]] >>]

\* json.dump(value, f, indent=2): the document written.
json_dump(value) ==
    [kind |-> value.kind,
     members |-> [i \in DOMAIN value.items |-> DumpRecord(value.items[i])],
     size |-> value.size]

\* An object's members are read back into a dict; of two members with one key
\* the later wins.
LoadRecord(members) ==
    [k \in { members[i][1] : i \in DOMAIN members } |->
        members[CHOOSE i \in DOMAIN members :
                    /\ members[i][1] = k
                    /\ \A j \in DOMAIN members : j > i => members[j][1] # k][2]]

\* json.load(f) of a completely written document.
json_load(doc) ==
    [kind |-> doc.kind,
     items |-> [i \in DOMAIN doc.members |-> LoadRecord(doc.members[i])],
     size |-> doc.size]

\* The output path before the run: no file, or the file of an earlier run.
OldFile ==
    [state |-> "old",
     doc |-> json_dump(JsonArray(<< [name |-> <<"o">>, description |-> <<"o">>,
                                     version |-> <<"0">>] >>))]

\* -------------------------------------------------- save_sample_data
\* What the file system does to the write: nothing wrong, a failure before the
\* file is opened (mkdir or open raises), or a failure while json.dump writes
\* into the file already truncated by open(..., 'w').
FsOutcomes == { "ok", "open_fails", "write_fails" }

save_sample_data(sample_data, file, fs) ==
    IF fs = "open_fails" THEN [raised |-> "OSError", file |-> file]
    ELSE IF fs = "write_fails"
         THEN [raised |-> "OSError", file |-> [state |-> "partial", doc |-> NoDoc]]
    ELSE [raised |-> "none",
          file |-> [state |-> "written", doc |-> json_dump(sample_data)]]

\* ------------------------------------------------ validate_sample_data
\* Mutant of MissingField: only the first server is looked at.
MissingFieldFirstOnly(data) ==
    \E f \in DOMAIN required_fields : required_fields[f] \notin DOMAIN data.items[1]

\* `field not in server` for every server and every required field.
MissingField(data) ==
    \E i \in DOMAIN data.items : \E f \in DOMAIN required_fields :
        required_fields[f] \notin DOMAIN data.items[i]

\* validate_sample_data(sample_file): True or False, and the count it prints
\* (-1: none printed). Every exception is caught and turned into False.
validate_sample_data(file) ==
    LET Fail == [ok |-> FALSE, count |-> 0 - 1]
    IN  IF file.state \in { "absent", "partial" } THEN Fail
        ELSE LET data == json_load(file.doc)
             IN  IF data.kind # "array" THEN Fail
                 ELSE IF PyLen(data) = 0 THEN Fail
                 ELSE IF MissingField(data) THEN Fail
                 ELSE [ok |-> TRUE, count |-> PyLen(data)]

\* ----------------------------------------------------------- main
VARIABLES
    response,        \* what the GET of SEED_DATA_URL will meet (environment)
    file0,           \* the output path before the run (environment)
    pc,              \* main's position
    sample_size,     \* main's sample_size
    full_data,       \* main's full_data (the object create_sample_data mutates)
    sample_data,     \* main's sample_data
    sample_indices,  \* create_sample_data's sample_indices of the last call
    file,            \* the file at the output path
    valid,           \* validate_sample_data's result: "none", "true", "false"
    validated_count, \* the count validate_sample_data printed, -1 if none
    raised,          \* the exception main's except clause caught, "none" if none
    failed_stage,    \* the stage that failed, "none" if none
    stages,          \* the stages entered so far, in order
    exit_code        \* the process's exit code, -1 while it runs

vars == << response, file0, pc, sample_size, full_data, sample_data, sample_indices,
           file, valid, validated_count, raised, failed_stage, stages, exit_code >>

\* sys.argv[2]: absent, not an integer, or an integer.
Argv2 ==
    { [kind |-> "absent", value |-> 0], [kind |-> "invalid", value |-> 0] }
    \cup { [kind |-> "int", value |-> k] : k \in SampleSizes }

Init ==
    /\ response \in Responses
    /\ file0 \in { NoFile, OldFile }
    /\ file = file0
    /\ pc = "args"
    /\ sample_size = DefaultSampleSize
    /\ full_data = NoValue
    /\ sample_data = NoValue
    /\ sample_indices = <<>>
    /\ valid = "none"
    /\ validated_count = 0 - 1
    /\ raised = "none"
    /\ failed_stage = "none"
    /\ stages = <<>>
    /\ exit_code = 0 - 1

\* except Exception as e: print; sys.exit(1)
MainExcept(stage, e) ==
    /\ pc' = "done"
    /\ raised' = e
    /\ failed_stage' = stage
    /\ exit_code' = 1

\* Mutant of ExitAfterValidation: the else branch is missing.
ExitZeroAfterValidation(ok) == 0

\* The exit code after validate_sample_data returned ok: the success branch
\* falls off the end of main (exit code 0), the else branch is sys.exit(1).
ExitAfterValidation(ok) == IF ok THEN 0 ELSE 1

\* Lines 120-126: the optional sample size argument.
ParseArgs ==
    /\ pc = "args"
    /\ \E a \in Argv2 :
          sample_size' = IF a.kind = "int" THEN a.value ELSE sample_size
    /\ pc' = "fetch"
    /\ UNCHANGED << response, file0, full_data, sample_data, sample_indices, file,
                    valid, validated_count, raised, failed_stage, stages, exit_code >>

\* full_data = fetch_seed_data(SEED_DATA_URL)
Fetch ==
    /\ pc = "fetch"
    /\ stages' = Append(stages, "fetch")
    /\ LET r == fetch_seed_data(response)
       IN  IF r.raised = "none"
           THEN /\ full_data' = r.data
                /\ pc' = "sample"
                /\ UNCHANGED << raised, failed_stage, exit_code >>
           ELSE /\ MainExcept("fetch", r.raised)
                /\ UNCHANGED full_data
    /\ UNCHANGED << response, file0, sample_size, sample_data, sample_indices, file,
                    valid, validated_count >>

\* sample_data = create_sample_data(full_data, sample_size)
Sample ==
    /\ pc = "sample"
    /\ stages' = Append(stages, "sample")
    /\ LET r == create_sample_data(full_data, sample_size)
       IN  /\ full_data' = r.full
           /\ sample_indices' = r.indices
           /\ IF r.raised = "none"
              THEN /\ sample_data' = r.sample
                   /\ pc' = "save"
                   /\ UNCHANGED << raised, failed_stage, exit_code >>
              ELSE /\ MainExcept("sample", r.raised)
                   /\ UNCHANGED sample_data
    /\ UNCHANGED << response, file0, sample_size, file, valid, validated_count >>

\* save_sample_data(sample_data, str(output_file))
Save ==
    /\ pc = "save"
    /\ stages' = Append(stages, "save")
    /\ \E fs \in FsOutcomes :
          LET r == save_sample_data(sample_data, file, fs)
          IN  /\ file' = r.file
              /\ IF r.raised = "none"
                 THEN /\ pc' = "validate"
                      /\ UNCHANGED << raised, failed_stage, exit_code >>
                 ELSE MainExcept("save", r.raised)
    /\ UNCHANGED << response, file0, sample_size, full_data, sample_data,
                    sample_indices, valid, validated_count >>

\* if validate_sample_data(str(output_file)): ... else: sys.exit(1)
Validate ==
    /\ pc = "validate"
    /\ stages' = Append(stages, "validate")
    /\ LET r == validate_sample_data(file)
       IN  /\ valid' = IF r.ok THEN "true" ELSE "false"
           /\ validated_count' = r.count
           /\ failed_stage' = IF r.ok THEN "none" ELSE "validate"
           /\ exit_code' = ExitAfterValidation(r.ok)
    /\ pc' = "done"
    /\ UNCHANGED << response, file0, sample_size, full_data, sample_data,
                    sample_indices, file, raised >>

Next == ParseArgs \/ Fetch \/ Sample \/ Save \/ Validate

Spec == Init /\ [][Next]_vars

\* ================================================================ claims
\* n, the length of the fetched value, and k, the requested sample size.
n == PyLen(response.body)
k == sample_size

\* create_sample_data was called and returned (it did not raise).
SampleReturned == Len(stages) >= 2 /\ failed_stage \notin { "fetch", "sample" }

\* create_sample_data was called and raised.
SampleRaised == Len(stages) >= 2 /\ failed_stage = "sample"

\* s starts with prefix
StartsWith(s, prefix) ==
    Len(s) >= Len(prefix) /\ SubSeq(s, 1, Len(prefix)) = prefix

\* The rewriting as the specification words it, field by field.
LocalPart(name) ==
    IF \A i \in DOMAIN name : name[i] # "/" THEN name
    ELSE LET i == CHOOSE i \in DOMAIN name :
                      name[i] = "/" /\ \A j \in DOMAIN name : j < i => name[j] # "/"
         IN  [x \in 1..(Len(name) - i) |-> name[i + x]]

Rewritten(orig, new) ==
    /\ DOMAIN new = { "name", "description", "version" }
    /\ new["name"] = ANON_PREFIX \o LocalPart(orig["name"])
    /\ new["description"] =
          DEMO_PREFIX \o (IF "description" \in DOMAIN orig THEN orig["description"]
                          ELSE NO_DESCRIPTION)
    /\ new["version"] =
          IF "version" \notin DOMAIN orig \/ orig["version"] = <<>> THEN DEFAULT_VERSION
          ELSE orig["version"]

\* C1: when n <= k, create_sample_data returns the fetched value itself, with
\* the same records in the same order and no field of any record changed; the
\* fetched data is left as it was.
C1_VerbatimWhenSmall ==
    (SampleReturned /\ n <= k) =>
        /\ sample_data = response.body
        /\ full_data = response.body
        /\ sample_indices = <<>>

\* C1 witness: a non-empty array of exactly k records, one of them without a
\* description (so that a rewrite would show), has been returned.
C1_Witness ==
    /\ SampleReturned
    /\ response.body.kind = "array"
    /\ n = k
    /\ n >= 2
    /\ \E i \in DOMAIN response.body.items :
          "description" \notin DOMAIN response.body.items[i]
    /\ sample_data = response.body

\* The shape C2 gives the sample: k records, at the indices 0, step, ...,
\* (k-1)*step with step = n div k, each below n and strictly increasing, the
\* sample's records being the records of full_data at these indices.
SpreadSample ==
    /\ sample_data.kind = "array"
    /\ Len(sample_data.items) = k
    /\ Len(sample_indices) = k
    /\ \A j \in DOMAIN sample_indices :
          /\ sample_indices[j] = (j - 1) * (n \div k)
          /\ sample_indices[j] >= 0
          /\ sample_indices[j] < n
          /\ j > 1 => sample_indices[j] > sample_indices[j - 1]
          /\ sample_data.items[j] = full_data.items[sample_indices[j] + 1]
    /\ (k >= 1 => sample_indices[1] = 0)

\* C2 as stated: for all inputs with n > k the returned sample has exactly k
\* records at the indices 0, step, ..., (k-1)*step. (Fails for k < 0.)
C2_Original == (SampleReturned /\ n > k) => SpreadSample

\* C2 amended: for all inputs with n > k >= 1 the returned sample has exactly k
\* records, taken at the strictly increasing indices 0, step, ..., (k-1)*step,
\* step = n div k, each a valid index below n.
C2_SpreadWhenLarge == (SampleReturned /\ n > k /\ k >= 1) => SpreadSample

\* C2 witness: a sample of two records taken two apart.
C2_Witness ==
    /\ SampleReturned
    /\ k = 2
    /\ n >= 4
    /\ sample_indices = << 0, 2 >>
    /\ Len(sample_data.items) = 2

\* Every record of the sample has a name with the anonymous prefix.
AllNamesAnonymous ==
    \A j \in DOMAIN sample_data.items :
        /\ "name" \in DOMAIN sample_data.items[j]
        /\ StartsWith(sample_data.items[j]["name"], ANON_PREFIX)

\* C3 as stated: every record of every returned sample, for any n and k, has a
\* name that starts with the prefix. (Fails for n <= k.)
C3_Original == SampleReturned => AllNamesAnonymous

\* C3 amended: every record of every sample returned for n > k has a name that
\* starts with "io.modelcontextprotocol.anonymous/".
C3_PrefixWhenLarge == (SampleReturned /\ n > k) => AllNamesAnonymous

\* C3 witness: a sample has been made of a record whose name had no '/'.
C3_Witness ==
    /\ SampleReturned
    /\ n > k
    /\ \E j \in DOMAIN sample_indices :
          /\ ~HasSlash(response.body.items[sample_indices[j] + 1]["name"])
          /\ StartsWith(sample_data.items[j]["name"], ANON_PREFIX)

\* C4: when n > k every selected record is rewritten exactly once, its name to
\* the prefix and what followed the first '/', its description to "[DEMO] " and
\* the original or "No description", its version to "1.0.0" if it was absent or
\* empty; the records not selected are left alone.
C4_RewriteOnce ==
    (SampleReturned /\ n > k) =>
        /\ \A j \in DOMAIN sample_indices :
              /\ Rewritten(response.body.items[sample_indices[j] + 1],
                           sample_data.items[j])
              /\ full_data.items[sample_indices[j] + 1] = sample_data.items[j]
        /\ \A p \in DOMAIN full_data.items :
              (\A j \in DOMAIN sample_indices : sample_indices[j] + 1 # p)
                  => full_data.items[p] = response.body.items[p]

\* C4 witness: two records were selected, one with two '/' in its name and an
\* empty version, and a record was not selected.
C4_Witness ==
    /\ SampleReturned
    /\ n > k
    /\ k = 2
    /\ \E j \in DOMAIN sample_indices :
          LET orig == response.body.items[sample_indices[j] + 1]
          IN  /\ orig["name"] = << "a", "/", "b", "/", "c" >>
              /\ orig["version"] = <<>>
              /\ sample_data.items[j]["name"] = ANON_PREFIX \o << "b", "/", "c" >>
    /\ \E j \in DOMAIN sample_indices :
          "description" \notin DOMAIN response.body.items[sample_indices[j] + 1]

\* The sample was written and read back by the validator.
RoundTripped == pc = "done" /\ Len(stages) = 4

\* The validator passed and counted as many records as the sample has.
RoundTripPasses == valid = "true" /\ validated_count = PyLen(sample_data)

\* A non-empty array whose records all have name, description and version.
CompleteSample(v) ==
    /\ v.kind = "array"
    /\ Len(v.items) >= 1
    /\ \A i \in DOMAIN v.items :
          { "name", "description", "version" } \subseteq DOMAIN v.items[i]

\* C5 as stated: every sample create_sample_data returns passes the round trip.
\* (Fails for an empty sample and for a verbatim sample with a field missing.)
C5_Original == RoundTripped => RoundTripPasses

\* C5 amended: every returned sample that is a non-empty array of records that
\* each have name, description and version passes the round trip with the same
\* record count, and every sample returned for n > k >= 1 is such a sample.
C5_RoundTrip ==
    /\ (RoundTripped /\ CompleteSample(sample_data)) => RoundTripPasses
    /\ (SampleReturned /\ n > k /\ k >= 1) => CompleteSample(sample_data)

\* C5 witness: a rewritten sample of two records went through the round trip.
C5_Witness ==
    /\ RoundTripped
    /\ n > k
    /\ k = 2
    /\ valid = "true"
    /\ validated_count = 2
    /\ \E i \in DOMAIN response.body.items : DOMAIN response.body.items[i] = { "name" }

\* The file at the output path is completely written and valid: an array, not
\* empty, each element with name, description and version.
ValidFileExists ==
    /\ file.state = "written"
    /\ file.doc.kind = "array"
    /\ Len(file.doc.members) >= 1
    /\ \A i \in DOMAIN file.doc.members :
          \A f \in { "name", "description", "version" } :
             \E m \in DOMAIN file.doc.members[i] : file.doc.members[i][m][1] = f

\* C6: a run ends with exit code 0 or 1; 0 only when fetch, sample, write and
\* validation all succeeded and a valid file exists, and 1 whenever a stage
\* failed. No exit code is set before the run has ended.
C6_ExitCodes ==
    /\ pc # "done" => exit_code = 0 - 1
    /\ pc = "done" =>
          /\ exit_code \in { 0, 1 }
          /\ exit_code = 0 <=>
                (/\ failed_stage = "none"
                 /\ raised = "none"
                 /\ stages = << "fetch", "sample", "save", "validate" >>
                 /\ valid = "true")
          /\ exit_code = 0 => ValidFileExists
          /\ (failed_stage # "none" \/ raised # "none" \/ valid = "false")
                => exit_code = 1

\* C6 witness: a run ended with exit code 1 after the validation failed.
C6_Witness ==
    /\ pc = "done"
    /\ exit_code = 1
    /\ failed_stage = "validate"
    /\ file.state = "written"

\* The fetch cannot succeed: no answer, a status other than 200, or a body that
\* is not JSON.
FetchMustFail ==
    \/ response.net # "ok"
    \/ response.status # 200
    \/ response.body.kind = "malformed"

\* s is a prefix of t
IsPrefix(s, t) == Len(s) <= Len(t) /\ SubSeq(t, 1, Len(s)) = s

\* C7: the stages run in the order fetch, sample, write, validate; the file is
\* touched only by the write stage of a run whose fetch succeeded; and when the
\* fetch fails (malformed JSON included) the run ends with exit code 1, with no
\* later stage run and the output path as it was before the run.
C7_OrderAndNoWriteOnFetchFailure ==
    /\ IsPrefix(stages, << "fetch", "sample", "save", "validate" >>)
    /\ file # file0 => (Len(stages) >= 3 /\ ~FetchMustFail)
    /\ (FetchMustFail /\ Len(stages) >= 1) =>
          /\ pc = "done"
          /\ exit_code = 1
          /\ stages = << "fetch" >>
          /\ file = file0

\* C7 witness: the body was malformed JSON, a file of an earlier run was there,
\* and the run has ended.
C7_Witness ==
    /\ response.body.kind = "malformed"
    /\ file0 = OldFile
    /\ pc = "done"
    /\ exit_code = 1
    /\ file = OldFile

\* C8 as stated: fetch_seed_data fails whenever the body is not valid JSON or is
\* JSON that is not an array, and nothing but an array is ever written.
C8_Original ==
    /\ (Len(stages) >= 1 /\ response.net = "ok" /\ response.status = 200
            /\ response.body.kind # "array")
          => (failed_stage = "fetch" /\ raised # "none")
    /\ file.state = "written" => file.doc.kind = "array"

\* What the validator must refuse, read off the written document.
DocumentInvalid ==
    \/ file.doc.kind # "array"
    \/ Len(file.doc.members) = 0
    \/ \E i \in DOMAIN file.doc.members :
          \E f \in { "name", "description", "version" } :
             \A m \in DOMAIN file.doc.members[i] : file.doc.members[i][m][1] # f

\* C9: the validator returns false, and the run exits with code 1, exactly when
\* the written file is not an array, is an empty array, or has a record without
\* name, description or version; otherwise it returns true with the count of
\* the records in the file.
C9_ValidatorVerdict ==
    valid # "none" =>
        /\ file.state = "written"
        /\ valid = "false" <=> DocumentInvalid
        /\ valid = "false" => (exit_code = 1 /\ validated_count = 0 - 1)
        /\ valid = "true" => (validated_count = Len(file.doc.members) /\ exit_code = 0)

\* C9 witness: a file of two records, the first complete and the second
\* without a version, was refused.
C9_Witness ==
    /\ valid = "false"
    /\ file.doc.kind = "array"
    /\ Len(file.doc.members) = 2
    /\ Len(file.doc.members[1]) = 3
    /\ Len(file.doc.members[2]) < 3
    /\ exit_code = 1

\* create_sample_data returned an empty sample and rewrote nothing.
EmptySampleNoRewrite ==
    /\ SampleReturned
    /\ sample_data = JsonArray(<<>>)
    /\ sample_indices = <<>>
    /\ full_data = response.body

\* C10 as stated: for k <= 0 and a non-empty fetched sequence the sample is
\* empty and nothing is raised. (Fails for k = 0.)
C10_Original ==
    (Len(stages) >= 2 /\ k <= 0 /\ response.body.kind = "array" /\ n >= 1)
        => EmptySampleNoRewrite

\* C10 amended: for k < 0 and every fetched sequence the index list and the
\* sample are empty, nothing is raised and no record is rewritten; for k = 0 and
\* a non-empty fetched sequence the division n // 0 raises ZeroDivisionError
\* before any record is rewritten, and the run ends with exit code 1 and the
\* output path untouched.
C10_NonPositiveK ==
    /\ (Len(stages) >= 2 /\ k < 0) => EmptySampleNoRewrite
    /\ (Len(stages) >= 2 /\ k = 0 /\ n >= 1) =>
          /\ SampleRaised
          /\ raised = "ZeroDivisionError"
          /\ full_data = response.body
          /\ exit_code = 1
          /\ file = file0

\* C10 witness: a negative sample size met a non-empty array.
C10_Witness ==
    /\ Len(stages) >= 2
    /\ k < 0
    /\ response.body.kind = "array"
    /\ n >= 2
    /\ sample_data = JsonArray(<<>>)

====
